---- MODULE Spec2Model ----
(***************************************************************************)
(* Model of src/instructlab/training/get_perplexity.py.                    *)
(*                                                                         *)
(*  - run_training: the supervisor that launches torchrun as a child       *)
(*    process, listens to it and shuts it down (SupervisorSpec).           *)
(*  - get_perplexity / main: the per-rank evaluation pass and its          *)
(*    collectives (AggregatorSpec).                                        *)
(*  - the float32 sum-reduction of one batch, combined in every order and  *)
(*    grouping (ReduceSpec).                                               *)
(*  - maybe_resume_training: checkpoint load, universal-checkpoint         *)
(*    fallback and the parse of the `latest` manifest (ResumeSpec).        *)
(*  - the same directory resumed by a second process, after the run wrote  *)
(*    a later manifest (SuccessiveResumesSpec) or with the other           *)
(*    LOCAL_RANK (RerunSpec).                                              *)
(*  - the start of one rank process under an environment that may lack     *)
(*    RANK, LOCAL_RANK or WORLD_SIZE (StartupSpec).                        *)
(***************************************************************************)
EXTENDS Integers, Sequences, FiniteSets, TLC

(***************************************************************************)
(* Bounds                                                                  *)
(***************************************************************************)
\* values tried for max_batch_len and max_seq_len (early validation)
MaxLenArg == 2
\* non-zero exit codes a child may end with on its own are 1..MaxExitCode
MaxExitCode == 2
\* largest world size (number of ranks) of an evaluation run
MaxWorld == 2
\* largest number of batches an evaluation loader yields
MaxBatches == 2
\* largest per-rank num_loss_counted_tokens of one batch
MaxTokens == 1
\* number of ranks whose tensors one reduction combines (ReduceSpec)
ReduceWorld == 4
\* longest content of the `latest` manifest, in characters
MaxManifestLen == 4
\* largest args.effective_batch_size
MaxEffectiveBatchSize == 2

VARIABLES
    \* ---- run_training ----
    train_args,    \* the fields of train_args the control flow depends on
    spc,           \* position of the supervising thread in run_training
    process,       \* local `process`: "None" or "handle"
    interrupt,     \* local `interrupt`: "None", "KeyboardInterrupt", "Exception"
    returncode,    \* state of the child: "unborn", "running" or its exit code
    polled,        \* value process.poll() returned at line 628 ("unset" before)
    ops,           \* calls made on StreamablePopen / the handle, in order
    outcome,       \* what the caller of run_training observes
    \* ---- main / get_perplexity, one process per rank ----
    world_size,    \* WORLD_SIZE
    nproc_per_node,\* torchrun --nproc_per_node; LOCAL_RANK = RANK % nproc_per_node
    num_batches,   \* rank -> number of batches its eval_loader yields
    rpc,           \* rank -> position of the rank process
    batch_idx,     \* rank -> batches of the loop completed so far
    vals,          \* rank -> log_perplexity, num_loss_counted_tokens, num_samples:
                   \*         the rank's own values before the reduction of a
                   \*         batch, the reduced ones after it (lines 334-355)
    totals,        \* rank -> running totals of get_perplexity
    calls,         \* rank -> collectives the rank has issued, in order
    records,       \* rank -> records written with metric_logger.log_sync
    \* ---- accelerator.reduce of one batch, lines 346-355 ----
    contrib,       \* rank -> the values the rank packs into its tensor
    partial,       \* partial sums formed so far, each with the ranks it covers
    \* ---- maybe_resume_training ----
    latest,        \* the file <output_dir>/ds_native/latest: whether it
                   \* exists, and its content
    effective_batch_size, \* args.effective_batch_size
    local_rank,    \* LOCAL_RANK of the process that runs maybe_resume_training
    mpc,           \* position in maybe_resume_training
    load_error,    \* what the load_checkpoint of line 273 raised ("None" if nothing)
    load_universal_checkpoint, \* model._config.load_universal_checkpoint
    samples_seen,  \* local `samples_seen` (-1 while not assigned)
    last_step,     \* args.last_step
    resume_ops,    \* calls made by maybe_resume_training, in order
    printed,       \* values printed at line 308, in order
    resume_outcome,\* what the caller of maybe_resume_training observes
    previous,      \* what earlier processes that ran maybe_resume_training
                   \* on this checkpoint directory did, oldest first
    \* ---- start of one rank process: main up to the evaluation loop ----
    env,           \* os.environ: RANK, LOCAL_RANK, WORLD_SIZE
    boot_pc,       \* position of the process in main
    boot_ops,      \* what the process has done so far, in order
    boot_outcome   \* how the start ended ("running" until then)

supVars == <<train_args, spc, process, interrupt, returncode, polled, ops, outcome>>

aggVars == <<world_size, nproc_per_node, num_batches, rpc, batch_idx, vals,
             totals, calls, records>>

redVars == <<contrib, partial>>

resVars == <<latest, effective_batch_size, local_rank, mpc, load_error,
             load_universal_checkpoint, samples_seen, last_step, resume_ops,
             printed, resume_outcome, previous>>

bootVars == <<env, boot_pc, boot_ops, boot_outcome>>

vars == <<supVars, aggVars, redVars, resVars, bootVars>>

\* what each part of the program leaves alone
notSupVars == <<aggVars, redVars, resVars, bootVars>>
notAggVars == <<supVars, redVars, resVars, bootVars>>
notRedVars == <<supVars, aggVars, resVars, bootVars>>
notResVars == <<supVars, aggVars, redVars, bootVars>>
notBootVars == <<supVars, aggVars, redVars, resVars>>

\* the rank processes while only run_training is observed
NoRanks ==
    /\ world_size = 0
    /\ nproc_per_node = 0
    /\ num_batches = <<>>
    /\ rpc = <<>>
    /\ batch_idx = <<>>
    /\ vals = <<>>
    /\ totals = <<>>
    /\ calls = <<>>
    /\ records = <<>>

\* run_training while only the rank processes are observed
NoSupervisor ==
    /\ train_args = <<>>
    /\ spc = "idle"
    /\ process = "None"
    /\ interrupt = "None"
    /\ returncode = "unborn"
    /\ polled = "unset"
    /\ ops = <<>>
    /\ outcome = "none"

\* a `latest` file that does not exist
NoFile == [exists |-> FALSE, content |-> <<>>]

\* the start of a rank process while another part is observed; the
\* other parts run with the environment torchrun sets
NoStartup ==
    /\ env = [RANK |-> "0", LOCAL_RANK |-> "0", WORLD_SIZE |-> "1"]
    /\ boot_pc = "idle"
    /\ boot_ops = <<>>
    /\ boot_outcome = "none"

\* the reduction of one batch while another part is observed
NoReduction ==
    /\ contrib = <<>>
    /\ partial = {}

\* maybe_resume_training while another part is observed
NoResume ==
    /\ latest = NoFile
    /\ effective_batch_size = 1
    /\ local_rank = 0
    /\ mpc = "idle"
    /\ load_error = "None"
    /\ load_universal_checkpoint = FALSE
    /\ samples_seen = -1
    /\ last_step = 0
    /\ resume_ops = <<>>
    /\ printed = <<>>
    /\ resume_outcome = "none"
    /\ previous = <<>>

(***************************************************************************)
(* run_training (lines 485-648)                                            *)
(*                                                                         *)
(* The supervising thread is followed from call to call.  A                *)
(* KeyboardInterrupt reaches it where it blocks: in the StreamablePopen    *)
(* constructor, in listen() and in wait(timeout=60).  The child runs on    *)
(* its own and may end during any call made while it is running.           *)
(***************************************************************************)
\* exit codes of a child that ends on its own
ExitCodes == {"0"} \cup {ToString(c) : c \in 1..MaxExitCode}
\* exit code of a child ended by SIGTERM / SIGKILL
SIGTERM == "-15"
SIGKILL == "-9"

\* the child keeps running, or ends on its own, while the supervisor is busy
ChildProgress(rc) == IF rc = "running" THEN {"running"} \cup ExitCodes ELSE {rc}

TrainArgs == [max_batch_len : 1..MaxLenArg, max_seq_len : 1..MaxLenArg,
              use_dolomite : BOOLEAN, disable_flash_attn : BOOLEAN]

InitSupervisor ==
    /\ train_args \in TrainArgs
    /\ spc = "validate"
    /\ process = "None"
    /\ interrupt = "None"
    /\ returncode = "unborn"
    /\ polled = "unset"
    /\ ops = <<>>
    /\ outcome = "none"
    /\ NoRanks
    /\ NoReduction
    /\ NoResume
    /\ NoStartup

\* lines 490-493: early validation
Validate ==
    /\ spc = "validate"
    /\ IF train_args.max_batch_len < train_args.max_seq_len
       THEN /\ spc' = "done"
            /\ outcome' = "raised ValueError"
       ELSE /\ spc' = "command"
            /\ UNCHANGED outcome
    /\ UNCHANGED <<train_args, process, interrupt, returncode, polled, ops>>
    /\ UNCHANGED notSupVars

\* lines 495-610: data processing and the torchrun command line;
\* lines 552-557 refuse padding-free transformers without flash attention.
\* Line 611-612 initialise process and interrupt.
BuildCommand ==
    /\ spc = "command"
    /\ IF train_args.disable_flash_attn /\ train_args.use_dolomite
       THEN /\ spc' = "done"
            /\ outcome' = "raised RuntimeError"
            /\ UNCHANGED <<process, interrupt>>
       ELSE /\ spc' = "launch"
            /\ process' = "None"
            /\ interrupt' = "None"
            /\ UNCHANGED outcome
    /\ UNCHANGED <<train_args, returncode, polled, ops>>
    /\ UNCHANGED notSupVars

\* lines 613-617 with the handlers of lines 619-624:
\* process = StreamablePopen(log, command)
Launch ==
    /\ spc = "launch"
    /\ \E result \in {"ok", "Exception", "KeyboardInterrupt"} :
         /\ ops' = Append(ops, "launch")
         /\ IF result = "ok"
            THEN /\ process' = "handle"
                 /\ returncode' = "running"
                 /\ spc' = "listen"
                 /\ UNCHANGED interrupt
            ELSE \* the constructor raised: process keeps the value None
                 /\ interrupt' = result
                 /\ spc' = "finally"
                 /\ UNCHANGED <<process, returncode>>
    /\ UNCHANGED <<train_args, polled, outcome>>
    /\ UNCHANGED notSupVars

\* line 618 with the handlers of lines 619-624: process.listen()
Listen ==
    /\ spc = "listen"
    /\ \E result \in {"returned", "Exception", "KeyboardInterrupt"} :
         /\ ops' = Append(ops, "listen")
         /\ interrupt' = IF result = "returned" THEN interrupt ELSE result
    /\ returncode' \in ChildProgress(returncode)
    /\ spc' = "finally"
    /\ UNCHANGED <<train_args, process, polled, outcome>>
    /\ UNCHANGED notSupVars

\* FinallyGuard without the `process is None` test of line 626
FinallyGuard_NoNoneTest ==
    /\ spc = "finally"
    /\ spc' = "poll"
    /\ UNCHANGED <<train_args, process, interrupt, returncode, polled, ops, outcome>>
    /\ UNCHANGED notSupVars

\* lines 625-627: a return inside finally ends run_training normally
FinallyGuard ==
    /\ spc = "finally"
    /\ IF process = "None"
       THEN /\ spc' = "done"
            /\ outcome' = "returned"
       ELSE /\ spc' = "poll"
            /\ UNCHANGED outcome
    /\ UNCHANGED <<train_args, process, interrupt, returncode, polled, ops>>
    /\ UNCHANGED notSupVars

\* lines 628-633: process.poll() == 0 only selects the message printed
Poll ==
    /\ spc = "poll"
    /\ returncode' \in ChildProgress(returncode)
    /\ polled' = IF returncode' = "running" THEN "None" ELSE returncode'
    /\ ops' = Append(ops, "poll")
    /\ spc' = "terminate"
    /\ UNCHANGED <<train_args, process, interrupt, outcome>>
    /\ UNCHANGED notSupVars

\* lines 635-636: process.terminate(), on both branches of line 628
Terminate ==
    /\ spc = "terminate"
    /\ ops' = Append(ops, "terminate")
    /\ returncode' \in ChildProgress(returncode)
    /\ spc' = "wait"
    /\ UNCHANGED <<train_args, process, interrupt, polled, outcome>>
    /\ UNCHANGED notSupVars

\* Wait followed by kill whether or not the wait timed out
Wait_KillRegardless ==
    /\ spc = "wait"
    /\ ops' = Append(ops, "wait")
    /\ returncode' \in IF returncode = "running"
                       THEN {"running", SIGTERM} \cup ExitCodes
                       ELSE {returncode}
    /\ spc' = "kill"
    /\ UNCHANGED <<train_args, process, interrupt, polled, outcome>>
    /\ UNCHANGED notSupVars

\* Wait without the except clause of line 640: the timeout leaves run_training
Wait_TimeoutUncaught ==
    /\ spc = "wait"
    /\ IF returncode # "running"
       THEN /\ ops' = Append(ops, "wait")
            /\ spc' = "reraise"
            /\ UNCHANGED <<returncode, outcome>>
       ELSE \E result \in {"exited", "TimeoutExpired"} :
              IF result = "exited"
              THEN /\ ops' = Append(ops, "wait")
                   /\ returncode' \in {SIGTERM} \cup ExitCodes
                   /\ spc' = "reraise"
                   /\ UNCHANGED outcome
              ELSE /\ ops' = ops \o <<"wait", "TimeoutExpired">>
                   /\ spc' = "done"
                   /\ outcome' = "raised TimeoutExpired"
                   /\ UNCHANGED returncode
    /\ UNCHANGED <<train_args, process, interrupt, polled>>
    /\ UNCHANGED notSupVars

\* lines 637-640: process.wait(timeout=60) and except subprocess.TimeoutExpired.
\* A child that is still running ends within the budget, or the wait times
\* out, or a KeyboardInterrupt reaches the blocked thread and leaves the
\* finally block uncaught.
Wait ==
    /\ spc = "wait"
    /\ IF returncode # "running"
       THEN /\ ops' = Append(ops, "wait")
            /\ spc' = "reraise"
            /\ UNCHANGED <<returncode, outcome>>
       ELSE \E result \in {"exited", "TimeoutExpired", "KeyboardInterrupt"} :
              CASE result = "exited" ->
                     /\ ops' = Append(ops, "wait")
                     /\ returncode' \in {SIGTERM} \cup ExitCodes
                     /\ spc' = "reraise"
                     /\ UNCHANGED outcome
                [] result = "TimeoutExpired" ->
                     /\ ops' = ops \o <<"wait", "TimeoutExpired">>
                     /\ spc' = "kill"
                     /\ UNCHANGED <<returncode, outcome>>
                [] result = "KeyboardInterrupt" ->
                     /\ ops' = Append(ops, "wait")
                     /\ spc' = "done"
                     /\ outcome' = "raised KeyboardInterrupt (in wait)"
                     /\ UNCHANGED returncode
    /\ UNCHANGED <<train_args, process, interrupt, polled>>
    /\ UNCHANGED notSupVars

\* Kill followed by a second wait instead of falling through to line 646
Kill_ThenWaitAgain ==
    /\ spc = "kill"
    /\ ops' = Append(ops, "kill")
    /\ returncode' = IF returncode = "running" THEN SIGKILL ELSE returncode
    /\ spc' = "wait"
    /\ UNCHANGED <<train_args, process, interrupt, polled, outcome>>
    /\ UNCHANGED notSupVars

\* lines 641-644: process.kill()
Kill ==
    /\ spc = "kill"
    /\ ops' = Append(ops, "kill")
    /\ returncode' = IF returncode = "running" THEN SIGKILL ELSE returncode
    /\ spc' = "reraise"
    /\ UNCHANGED <<train_args, process, interrupt, polled, outcome>>
    /\ UNCHANGED notSupVars

\* lines 646-648: raise interrupt, or fall off the end of the function
Reraise ==
    /\ spc = "reraise"
    /\ outcome' = IF interrupt # "None" THEN "reraised " \o interrupt ELSE "returned"
    /\ spc' = "done"
    /\ UNCHANGED <<train_args, process, interrupt, returncode, polled, ops>>
    /\ UNCHANGED notSupVars

NextSupervisor ==
    \/ Validate
    \/ BuildCommand
    \/ Launch
    \/ Listen
    \/ FinallyGuard
    \/ Poll
    \/ Terminate
    \/ Wait
    \/ Kill
    \/ Reraise

SupervisorSpec == InitSupervisor /\ [][NextSupervisor]_vars

(***************************************************************************)
(* main (lines 393-481) and get_perplexity (lines 318-389), one process    *)
(* per rank.  Collectives (torch.distributed.barrier, accelerator.reduce)  *)
(* complete only when every rank of the world has issued the same one;     *)
(* they have no timeout.                                                   *)
(***************************************************************************)
Ranks == 0..(world_size - 1)
\* LOCAL_RANK of the process whose global RANK is r
LocalRank(r) == r % nproc_per_node

\* line 428: args.samples_per_gpu = 100
samples_per_gpu == 100
\* loss.item() of a batch with t loss-counted tokens: the loss is summed over
\* the tokens, and every token is given the loss 2
LossOf(t) == 2 * t
\* [log_perplexity, num_loss_counted_tokens, num_samples] of one batch on
\* one rank (lines 334-344); every batch is a full one
LocalValues == {[log_perplexity |-> LossOf(t),
                 num_loss_counted_tokens |-> t,
                 num_samples |-> samples_per_gpu] : t \in 0..MaxTokens}
NoValues == [log_perplexity |-> 0, num_loss_counted_tokens |-> 0, num_samples |-> 0]
ZeroTotals == [total_log_perplexity |-> 0, total_num_tokens |-> 0, total_samples |-> 0]

\* line 350: dtype=torch.float32, a format with 24 significant bits
MantissaBits == 24
\* line 746: default of --max_batch_len, the most tokens of a batch on one rank
max_batch_len == 60000

RECURSIVE Pow2(_)
Pow2(n) == IF n = 0 THEN 1 ELSE 2 * Pow2(n - 1)

\* every integer below this is a float32
Float32Exact == Pow2(MantissaBits)

RECURSIVE Ulp(_, _)
\* distance between neighbouring floats around the integer x >= exact, for
\* a format whose integers below `exact` are all representable
Ulp(x, exact) == IF x < exact THEN 1 ELSE 2 * Ulp(x \div 2, exact)

\* the float nearest to the non-negative integer x, ties to even
RoundTo(x, exact) ==
    IF x < exact THEN x
    ELSE LET u == Ulp(x, exact)
             down == x - (x % u)
         IN  IF 2 * (x % u) < u THEN down
             ELSE IF 2 * (x % u) > u THEN down + u
             ELSE IF (down \div u) % 2 = 0 THEN down
             ELSE down + u

\* a tensor of dtype torch.float16 (11 significant bits) in place of float32
Float32_HalfPrecision(x) == RoundTo(x, Pow2(11))
\* the value x has once stored in the tensor of lines 348-351
Float32(x) == RoundTo(x, Float32Exact)

\* torch.tensor([log_perplexity, num_loss_counted_tokens, num_samples],
\* dtype=torch.float32), lines 348-351
Tensor(v) == [log_perplexity |-> Float32(v.log_perplexity),
              num_loss_counted_tokens |-> Float32(v.num_loss_counted_tokens),
              num_samples |-> Float32(v.num_samples)]

\* element-wise float32 sum of two tensors, one combining step of the
\* reduction
AddTensors(a, b) ==
    [log_perplexity |-> Float32(a.log_perplexity + b.log_perplexity),
     num_loss_counted_tokens |->
         Float32(a.num_loss_counted_tokens + b.num_loss_counted_tokens),
     num_samples |-> Float32(a.num_samples + b.num_samples)]

RECURSIVE SumOver(_, _)
\* the tensors of the ranks 0..n combined in rank order
SumOver(loc, n) == IF n = 0 THEN Tensor(loc[0])
                   ELSE AddTensors(SumOver(loc, n - 1), Tensor(loc[n]))

\* accelerator.reduce(tensor, reduction="sum"), lines 346-355; map(float, ...)
\* widens each float32 to a Python float without changing its value
ReduceSum(loc) == SumOver(loc, world_size - 1)

\* the rank processes torchrun has started, each at the top of main
InitAggregator ==
    /\ world_size \in 1..MaxWorld
    /\ nproc_per_node \in {n \in 1..world_size : world_size % n = 0}
    /\ num_batches \in [Ranks -> 0..MaxBatches]
    /\ rpc = [r \in Ranks |-> "main"]
    /\ batch_idx = [r \in Ranks |-> 0]
    /\ vals = [r \in Ranks |-> NoValues]
    /\ totals = [r \in Ranks |-> ZeroTotals]
    /\ calls = [r \in Ranks |-> <<>>]
    /\ records = [r \in Ranks |-> <<>>]
    /\ NoSupervisor
    /\ NoReduction
    /\ NoResume
    /\ NoStartup

\* line 403
ScriptParamsRecord == [script_params |-> "vars(args)"]

\* lines 397-416: the rank opens its metric log perplexity_log_<RANK>.jsonl,
\* the process with LOCAL_RANK 0 writes the script parameters, and the rank
\* joins the process group and issues the all_reduce of line 416
MainStart(r) ==
    /\ rpc[r] = "main"
    /\ records' = IF LocalRank(r) = 0
                  THEN [records EXCEPT ![r] = Append(@, ScriptParamsRecord)]
                  ELSE records
    /\ calls' = [calls EXCEPT ![r] = Append(@, "all_reduce")]
    /\ rpc' = [rpc EXCEPT ![r] = "all_reduce"]
    /\ UNCHANGED <<world_size, nproc_per_node, num_batches, batch_idx, vals,
                   totals>>
    /\ UNCHANGED notAggVars

\* line 417: the rank issues the barrier that ends the distributed init
InitBarrier(r) ==
    /\ rpc[r] = "synced"
    /\ calls' = [calls EXCEPT ![r] = Append(@, "barrier")]
    /\ rpc' = [rpc EXCEPT ![r] = "init_barrier"]
    /\ UNCHANGED <<world_size, nproc_per_node, num_batches, batch_idx, vals,
                   totals, records>>
    /\ UNCHANGED notAggVars

\* lines 446-458, with the fields the model represents
LoaderRecord(r) == [num_gpus |-> world_size,
                    num_batches |-> num_batches[r],
                    samples_per_gpu |-> samples_per_gpu]

\* lines 419-462: the rank builds its dataset and loader, the process with
\* LOCAL_RANK 0 writes the data-loader summary, and the model is set up
LoaderSummary(r) ==
    /\ rpc[r] = "loader"
    /\ records' = IF LocalRank(r) = 0
                  THEN [records EXCEPT ![r] = Append(@, LoaderRecord(r))]
                  ELSE records
    /\ rpc' = [rpc EXCEPT ![r] = "setup"]
    /\ UNCHANGED <<world_size, nproc_per_node, num_batches, batch_idx, vals,
                   totals, calls>>
    /\ UNCHANGED notAggVars

\* line 477 and lines 319-328: the rank ends its setup, enters get_perplexity,
\* zeroes its totals and issues the opening barrier
EnterGetPerplexity(r) ==
    /\ rpc[r] = "setup"
    /\ totals' = [totals EXCEPT ![r] = ZeroTotals]
    /\ calls' = [calls EXCEPT ![r] = Append(@, "barrier")]
    /\ rpc' = [rpc EXCEPT ![r] = "barrier"]
    /\ UNCHANGED <<world_size, nproc_per_node, num_batches, batch_idx, vals,
                   records>>
    /\ UNCHANGED notAggVars

\* where a rank continues after the barrier it is blocked in
AfterBarrier(pc) == IF pc = "init_barrier" THEN "loader"
                    ELSE IF pc = "barrier" THEN "loop"
                    ELSE "destroyed"
\* the positions in which a rank is blocked in torch.distributed.barrier()
InBarrier == {"init_barrier", "barrier", "closing_barrier"}

\* every rank is blocked in its k-th collective and all of them issued `op`
Rendezvous(op, pcs) ==
    /\ \A r \in Ranks : rpc[r] \in pcs
    /\ \A r \in Ranks : Len(calls[r]) = Len(calls[0]) /\ calls[r][Len(calls[r])] = op

\* a barrier that lets each rank through as soon as it arrives
Barrier_NoRendezvous ==
    /\ \E r \in Ranks :
         /\ rpc[r] \in InBarrier
         /\ rpc' = [rpc EXCEPT ![r] = AfterBarrier(@)]
    /\ UNCHANGED <<world_size, nproc_per_node, num_batches, batch_idx, vals,
                   totals, calls, records>>
    /\ UNCHANGED notAggVars

\* torch.distributed.all_reduce of line 416 completing
InitAllReduce ==
    /\ Rendezvous("all_reduce", {"all_reduce"})
    /\ rpc' = [r \in Ranks |-> "synced"]
    /\ UNCHANGED <<world_size, nproc_per_node, num_batches, batch_idx, vals,
                   totals, calls, records>>
    /\ UNCHANGED notAggVars

\* torch.distributed.barrier() of line 417, of line 328 and of line 480
\* completing; after line 480 the rank destroys the process group (line 481)
Barrier ==
    /\ Rendezvous("barrier", InBarrier)
    /\ rpc' = [r \in Ranks |-> AfterBarrier(rpc[r])]
    /\ UNCHANGED <<world_size, nproc_per_node, num_batches, batch_idx, vals,
                   totals, calls, records>>
    /\ UNCHANGED notAggVars

\* the loop body with the reduction moved under `if local_rank == 0`
NextBatch_ReduceOnLocalRankZero(r) ==
    /\ rpc[r] = "loop"
    /\ batch_idx[r] < num_batches[r]
    /\ \E v \in LocalValues : vals' = [vals EXCEPT ![r] = v]
    /\ IF LocalRank(r) = 0
       THEN /\ calls' = [calls EXCEPT ![r] = Append(@, "reduce")]
            /\ rpc' = [rpc EXCEPT ![r] = "reduce"]
       ELSE /\ rpc' = [rpc EXCEPT ![r] = "accumulate"]
            /\ UNCHANGED calls
    /\ UNCHANGED <<world_size, nproc_per_node, num_batches, batch_idx,
                   totals, records>>
    /\ UNCHANGED notAggVars

\* lines 332-355: the loader yields the next batch, the forward pass gives
\* the local loss, and the rank hands its three numbers to accelerator.reduce
NextBatch(r) ==
    /\ rpc[r] = "loop"
    /\ batch_idx[r] < num_batches[r]
    /\ \E v \in LocalValues : vals' = [vals EXCEPT ![r] = v]
    /\ calls' = [calls EXCEPT ![r] = Append(@, "reduce")]
    /\ rpc' = [rpc EXCEPT ![r] = "reduce"]
    /\ UNCHANGED <<world_size, nproc_per_node, num_batches, batch_idx,
                   totals, records>>
    /\ UNCHANGED notAggVars

\* a reduction that hands each rank its own tensor back
AllReduce_KeepsLocal ==
    /\ Rendezvous("reduce", {"reduce"})
    /\ vals' = [r \in Ranks |-> Tensor(vals[r])]
    /\ rpc' = [r \in Ranks |-> "accumulate"]
    /\ UNCHANGED <<world_size, nproc_per_node, num_batches, batch_idx,
                   totals, calls, records>>
    /\ UNCHANGED notAggVars

\* accelerator.reduce of lines 346-355 completing: every rank gets the sums
AllReduce ==
    /\ Rendezvous("reduce", {"reduce"})
    /\ vals' = [r \in Ranks |-> ReduceSum(vals)]
    /\ rpc' = [r \in Ranks |-> "accumulate"]
    /\ UNCHANGED <<world_size, nproc_per_node, num_batches, batch_idx,
                   totals, calls, records>>
    /\ UNCHANGED notAggVars

\* lines 356-358
Accumulated(t, v) ==
    [total_log_perplexity |-> t.total_log_perplexity + v.log_perplexity,
     total_num_tokens |-> t.total_num_tokens + v.num_loss_counted_tokens,
     total_samples |-> t.total_samples + v.num_samples]

\* lines 363-372
BatchRecord(v, t) ==
    [log_perplexity |-> v.log_perplexity,
     num_loss_counted_tokens |-> v.num_loss_counted_tokens,
     total_log_perplexity |-> t.total_log_perplexity,
     total_num_tokens |-> t.total_num_tokens,
     num_samples |-> v.num_samples,
     total_samples |-> t.total_samples]

\* the per-batch record written before the totals are updated
Accumulate_RecordBeforeAdd(r) ==
    /\ rpc[r] = "accumulate"
    /\ totals' = [totals EXCEPT ![r] = Accumulated(@, vals[r])]
    /\ records' = IF LocalRank(r) = 0
                  THEN [records EXCEPT ![r] = Append(@, BatchRecord(vals[r], totals[r]))]
                  ELSE records
    /\ batch_idx' = [batch_idx EXCEPT ![r] = @ + 1]
    /\ rpc' = [rpc EXCEPT ![r] = "loop"]
    /\ UNCHANGED <<world_size, nproc_per_node, num_batches, vals, calls>>
    /\ UNCHANGED notAggVars

\* lines 356-372: add the reduced values to the running totals; the process
\* with LOCAL_RANK 0 writes the per-batch record
Accumulate(r) ==
    /\ rpc[r] = "accumulate"
    /\ totals' = [totals EXCEPT ![r] = Accumulated(@, vals[r])]
    /\ records' = IF LocalRank(r) = 0
                  THEN [records EXCEPT ![r] = Append(@, BatchRecord(vals[r], totals'[r]))]
                  ELSE records
    /\ batch_idx' = [batch_idx EXCEPT ![r] = @ + 1]
    /\ rpc' = [rpc EXCEPT ![r] = "loop"]
    /\ UNCHANGED <<world_size, nproc_per_node, num_batches, vals, calls>>
    /\ UNCHANGED notAggVars

\* line 375: total_log_perplexity / total_num_tokens, kept as the fraction;
\* avg_perplexity (line 376), the value get_perplexity returns (line 389),
\* is math.exp of it
AverageLogPerp(t) == [num |-> t.total_log_perplexity, den |-> t.total_num_tokens]

\* lines 379-387; the quotient and its exponential are not represented
FinalRecord(t) ==
    [average_log_perp |-> "total_log_perplexity / total_num_tokens",
     avg_perplexity |-> "exp(average_log_perp)",
     total_log_perplexity |-> t.total_log_perplexity,
     total_num_tokens |-> t.total_num_tokens,
     total_samples |-> t.total_samples]

\* the quotient of line 375 computed under `if local_rank == 0` only
Finish_OnlyReporterDivides(r) ==
    /\ rpc[r] = "loop"
    /\ batch_idx[r] = num_batches[r]
    /\ IF LocalRank(r) # 0
       THEN /\ rpc' = [rpc EXCEPT ![r] = "returned"]
            /\ UNCHANGED records
       ELSE IF totals[r].total_num_tokens = 0
       THEN /\ rpc' = [rpc EXCEPT ![r] = "raised ZeroDivisionError"]
            /\ UNCHANGED records
       ELSE /\ rpc' = [rpc EXCEPT ![r] = "returned"]
            /\ records' = [records EXCEPT ![r] = Append(@, FinalRecord(totals[r]))]
    /\ UNCHANGED <<world_size, nproc_per_node, num_batches, batch_idx, vals,
                   totals, calls>>
    /\ UNCHANGED notAggVars

\* a division that yields a value (nan, inf) where Python raises
Finish_NoZeroCheck(r) ==
    /\ rpc[r] = "loop"
    /\ batch_idx[r] = num_batches[r]
    /\ rpc' = [rpc EXCEPT ![r] = "returned"]
    /\ records' = IF LocalRank(r) = 0
                  THEN [records EXCEPT ![r] = Append(@, FinalRecord(totals[r]))]
                  ELSE records
    /\ UNCHANGED <<world_size, nproc_per_node, num_batches, batch_idx, vals,
                   totals, calls>>
    /\ UNCHANGED notAggVars

\* lines 374-389: the loader is exhausted; total_log_perplexity / total_num_tokens
\* raises ZeroDivisionError when no token was counted, otherwise the process
\* with LOCAL_RANK 0 writes the final record and get_perplexity returns
Finish(r) ==
    /\ rpc[r] = "loop"
    /\ batch_idx[r] = num_batches[r]
    /\ IF totals[r].total_num_tokens = 0
       THEN /\ rpc' = [rpc EXCEPT ![r] = "raised ZeroDivisionError"]
            /\ UNCHANGED records
       ELSE /\ rpc' = [rpc EXCEPT ![r] = "returned"]
            /\ records' = IF LocalRank(r) = 0
                          THEN [records EXCEPT ![r] = Append(@, FinalRecord(totals[r]))]
                          ELSE records
    /\ UNCHANGED <<world_size, nproc_per_node, num_batches, batch_idx, vals,
                   totals, calls>>
    /\ UNCHANGED notAggVars

\* line 480: back in main, the rank issues the closing barrier
ClosingBarrier(r) ==
    /\ rpc[r] = "returned"
    /\ calls' = [calls EXCEPT ![r] = Append(@, "barrier")]
    /\ rpc' = [rpc EXCEPT ![r] = "closing_barrier"]
    /\ UNCHANGED <<world_size, nproc_per_node, num_batches, batch_idx, vals,
                   totals, records>>
    /\ UNCHANGED notAggVars

RankStep(r) ==
    \/ MainStart(r)
    \/ InitBarrier(r)
    \/ LoaderSummary(r)
    \/ EnterGetPerplexity(r)
    \/ NextBatch(r)
    \/ Accumulate(r)
    \/ Finish(r)
    \/ ClosingBarrier(r)

NextAggregator ==
    \/ \E r \in Ranks : MainStart(r)
    \/ InitAllReduce
    \/ \E r \in Ranks : InitBarrier(r)
    \/ \E r \in Ranks : LoaderSummary(r)
    \/ \E r \in Ranks : EnterGetPerplexity(r)
    \/ Barrier
    \/ \E r \in Ranks : NextBatch(r)
    \/ AllReduce
    \/ \E r \in Ranks : Accumulate(r)
    \/ \E r \in Ranks : Finish(r)
    \/ \E r \in Ranks : ClosingBarrier(r)

AggregatorSpec == InitAggregator /\ [][NextAggregator]_vars

\* every rank process keeps running while it can take a step, and a
\* collective on which all ranks have arrived completes
AggregatorFairSpec ==
    /\ AggregatorSpec
    /\ \A r \in 0..(MaxWorld - 1) : WF_vars(r \in Ranks /\ RankStep(r))
    /\ WF_vars(InitAllReduce)
    /\ WF_vars(Barrier)
    /\ WF_vars(AllReduce)

(***************************************************************************)
(* accelerator.reduce(..., reduction="sum") of one batch, lines 346-355.   *)
(* The collective adds the ranks' float32 tensors pairwise; which partial  *)
(* sums it forms and in which order is up to the backend, so every order   *)
(* and grouping is a behaviour.                                            *)
(***************************************************************************)
ReduceRanks == 0..(ReduceWorld - 1)

\* what one rank may hold at line 346: a full batch of samples_per_gpu
\* samples with no, few or max_batch_len loss-counted tokens, or a last
\* batch of a single sample
ReduceInputs ==
    {[log_perplexity |-> LossOf(t), num_loss_counted_tokens |-> t,
      num_samples |-> samples_per_gpu] : t \in (0..MaxTokens) \cup {max_batch_len}}
    \cup {[log_perplexity |-> LossOf(1), num_loss_counted_tokens |-> 1,
           num_samples |-> 1]}

InitReduce ==
    /\ contrib \in [ReduceRanks -> ReduceInputs]
    /\ partial = {[ranks |-> {r}, sum |-> Tensor(contrib[r])] : r \in ReduceRanks}
    /\ NoSupervisor
    /\ NoRanks
    /\ NoResume
    /\ NoStartup

\* two partial sums are added into one
Combine ==
    /\ \E a, b \in partial :
          /\ a.ranks \cap b.ranks = {}
          /\ partial' = (partial \ {a, b}) \cup
                            {[ranks |-> a.ranks \cup b.ranks,
                              sum |-> AddTensors(a.sum, b.sum)]}
    /\ UNCHANGED contrib
    /\ UNCHANGED notRedVars

NextReduce == Combine

ReduceSpec == InitReduce /\ [][NextReduce]_vars

(***************************************************************************)
(* maybe_resume_training, lines 260-316.  The manifest is a sequence of    *)
(* characters: "a" stands for a letter, "0" and "3" are digits, "_" is the *)
(* underscore and "-" stands for a character that \w does not match.       *)
(***************************************************************************)
Chars == {"a", "_", "0", "3", "-"}
IsDigit(c) == c \in {"0", "3"}
\* \w: letters, digits and the underscore
IsWord(c) == c \in {"a", "_", "0", "3"}
DigitValue(c) == IF c = "3" THEN 3 ELSE 0

RECURSIVE SeqsUpTo(_)
\* the sequences of at most n characters
SeqsUpTo(n) == IF n = 0 THEN {<<>>}
               ELSE LET shorter == SeqsUpTo(n - 1)
                    IN  shorter \cup {Append(t, c) : t \in shorter, c \in Chars}
Manifests == SeqsUpTo(MaxManifestLen)

\* lengths the \w+ of the pattern can take at the start of t so that "_" and
\* a digit follow
WordPrefixes(t) ==
    {i \in 1..(Len(t) - 2) : /\ \A j \in 1..i : IsWord(t[j])
                             /\ t[i + 1] = "_"
                             /\ IsDigit(t[i + 2])}
Max(S) == CHOOSE m \in S : \A x \in S : x <= m

\* re.match("\w+_(\d+)", t) of line 302 is not None; the pattern is
\* anchored at the start of t only
Matches(t) == WordPrefixes(t) # {}

\* group 1 of the match: \w+ is greedy, so it takes the longest prefix, and
\* \d+ takes every digit that follows
Group1(t) ==
    LET first == Max(WordPrefixes(t)) + 2
        last == Max({j \in first..Len(t) : \A k \in first..j : IsDigit(t[k])})
    IN  SubSeq(t, first, last)

RECURSIVE ParseInt(_)
\* int(digits) of line 303
ParseInt(d) == IF d = <<>> THEN 0
          ELSE 10 * ParseInt(SubSeq(d, 1, Len(d) - 1)) + DigitValue(d[Len(d)])

\* the remainder in place of the quotient
LastStep_Remainder(samples, batch_size) == samples % batch_size
\* a division that rounds up
LastStep_RoundUp(samples, batch_size) == (samples + batch_size - 1) \div batch_size
\* line 305: samples_seen // args.effective_batch_size
LastStep(samples, batch_size) == samples \div batch_size

\* what model.load_checkpoint of line 273 can do: return, or raise; without
\* a `latest` file there is nothing to load and DeepSpeed returns (line 263)
PrimaryLoadResults ==
    IF ~latest.exists THEN {"None"}
    ELSE {"None", "ZeRORuntimeException: DP world size",
          "ZeRORuntimeException: other", "Exception"}

\* line 275: str(e).startswith("The checkpoint being loaded used a DP world size of")
IsWorldSizeMismatch(e) == e = "ZeRORuntimeException: DP world size"

\* --last_step defaults to 0 (lines 666-670)
InitResume ==
    /\ latest \in {NoFile} \cup {[exists |-> TRUE, content |-> t] : t \in Manifests}
    /\ effective_batch_size \in 1..MaxEffectiveBatchSize
    /\ local_rank \in {0, 1}
    /\ mpc = "load"
    /\ load_error = "None"
    /\ load_universal_checkpoint = FALSE
    /\ samples_seen = -1
    /\ last_step = 0
    /\ resume_ops = <<>>
    /\ printed = <<>>
    /\ resume_outcome = "running"
    /\ previous = <<>>
    /\ NoSupervisor
    /\ NoRanks
    /\ NoReduction
    /\ NoStartup

\* a handler that takes the fallback whatever the message
LoadCheckpoint_FallbackOnAnyMessage ==
    /\ mpc = "load"
    /\ resume_ops' = Append(resume_ops, "load_checkpoint")
    /\ \E e \in PrimaryLoadResults :
         /\ load_error' = e
         /\ IF e = "None"
            THEN mpc' = "manifest" /\ UNCHANGED resume_outcome
            ELSE IF e # "Exception"
            THEN mpc' = "fallback" /\ UNCHANGED resume_outcome
            ELSE mpc' = "done" /\ resume_outcome' = "raised " \o e
    /\ UNCHANGED <<previous, latest, effective_batch_size, local_rank,
                   load_universal_checkpoint, samples_seen, last_step, printed>>
    /\ UNCHANGED notResVars

\* lines 271-275 and 292-293: the primary load; a ZeRORuntimeException about
\* the DP world size leads to the fallback, one with another message is
\* raised again, any other exception is not caught
LoadCheckpoint ==
    /\ mpc = "load"
    /\ resume_ops' = Append(resume_ops, "load_checkpoint")
    /\ \E e \in PrimaryLoadResults :
         /\ load_error' = e
         /\ IF e = "None"
            THEN mpc' = "manifest" /\ UNCHANGED resume_outcome
            ELSE IF IsWorldSizeMismatch(e)
            THEN mpc' = "fallback" /\ UNCHANGED resume_outcome
            ELSE mpc' = "done" /\ resume_outcome' = "raised " \o e
    /\ UNCHANGED <<previous, latest, effective_batch_size, local_rank,
                   load_universal_checkpoint, samples_seen, last_step, printed>>
    /\ UNCHANGED notResVars

\* lines 281-285: the checkpoint is converted (the conversion is taken to
\* return) and universal loading is switched on
Convert ==
    /\ mpc = "fallback"
    /\ resume_ops' = Append(resume_ops, "prepare_universal_checkpoint_from_latest")
    /\ load_universal_checkpoint' = TRUE
    /\ mpc' = "retry"
    /\ UNCHANGED <<previous, latest, effective_batch_size, local_rank, load_error,
                   samples_seen, last_step, printed, resume_outcome>>
    /\ UNCHANGED notResVars

\* lines 288-291: the retry load; when it returns the flag is reset, when it
\* raises the exception leaves maybe_resume_training from inside the handler
RetryLoad ==
    /\ mpc = "retry"
    /\ resume_ops' = Append(resume_ops, "load_checkpoint")
    /\ \/ /\ load_universal_checkpoint' = FALSE
          /\ mpc' = "manifest"
          /\ UNCHANGED resume_outcome
       \/ /\ mpc' = "done"
          /\ resume_outcome' = "raised in retry load"
          /\ UNCHANGED load_universal_checkpoint
    /\ UNCHANGED <<previous, latest, effective_batch_size, local_rank, load_error,
                   samples_seen, last_step, printed>>
    /\ UNCHANGED notResVars

\* the assignment of args.last_step moved under `if local_rank == 0`
ReadManifest_StepSetByLocalRankZero ==
    /\ mpc = "manifest"
    /\ mpc' = "done"
    /\ IF ~latest.exists
       THEN /\ resume_outcome' = "returned"
            /\ UNCHANGED <<samples_seen, last_step, printed>>
       ELSE IF ~Matches(latest.content)
       THEN /\ resume_outcome' = "raised AttributeError"
            /\ UNCHANGED <<samples_seen, last_step, printed>>
       ELSE /\ samples_seen' = ParseInt(Group1(latest.content))
            /\ IF local_rank = 0
               THEN /\ last_step' = LastStep(samples_seen', effective_batch_size)
                    /\ printed' = Append(printed, last_step')
               ELSE UNCHANGED <<last_step, printed>>
            /\ resume_outcome' = "returned"
    /\ UNCHANGED <<previous, latest, effective_batch_size, local_rank, load_error,
                   load_universal_checkpoint, resume_ops>>
    /\ UNCHANGED notResVars

\* the manifest read without the `except FileNotFoundError: pass`
ReadManifest_MissingIsFatal ==
    /\ mpc = "manifest"
    /\ mpc' = "done"
    /\ IF ~latest.exists
       THEN /\ resume_outcome' = "raised FileNotFoundError"
            /\ UNCHANGED <<samples_seen, last_step, printed>>
       ELSE IF ~Matches(latest.content)
       THEN /\ resume_outcome' = "raised AttributeError"
            /\ UNCHANGED <<samples_seen, last_step, printed>>
       ELSE /\ samples_seen' = ParseInt(Group1(latest.content))
            /\ last_step' = LastStep(samples_seen', effective_batch_size)
            /\ printed' = IF local_rank = 0 THEN Append(printed, last_step')
                          ELSE printed
            /\ resume_outcome' = "returned"
    /\ UNCHANGED <<previous, latest, effective_batch_size, local_rank, load_error,
                   load_universal_checkpoint, resume_ops>>
    /\ UNCHANGED notResVars

\* lines 296-316: open() of a missing file raises FileNotFoundError, which
\* is passed over; re.match(...) returning None makes .groups() raise
\* AttributeError, which is not caught; otherwise samples_seen and
\* args.last_step are set, LOCAL_RANK 0 prints, and the model is returned
ReadManifest ==
    /\ mpc = "manifest"
    /\ mpc' = "done"
    /\ IF ~latest.exists
       THEN /\ resume_outcome' = "returned"
            /\ UNCHANGED <<samples_seen, last_step, printed>>
       ELSE IF ~Matches(latest.content)
       THEN /\ resume_outcome' = "raised AttributeError"
            /\ UNCHANGED <<samples_seen, last_step, printed>>
       ELSE /\ samples_seen' = ParseInt(Group1(latest.content))
            /\ last_step' = LastStep(samples_seen', effective_batch_size)
            /\ printed' = IF local_rank = 0 THEN Append(printed, last_step')
                          ELSE printed
            /\ resume_outcome' = "returned"
    /\ UNCHANGED <<previous, latest, effective_batch_size, local_rank, load_error,
                   load_universal_checkpoint, resume_ops>>
    /\ UNCHANGED notResVars

NextResume ==
    \/ LoadCheckpoint
    \/ Convert
    \/ RetryLoad
    \/ ReadManifest

ResumeSpec == InitResume /\ [][NextResume]_vars

(***************************************************************************)
(* The same checkpoint directory resumed by a second process.  Every       *)
(* process starts from the argparse defaults (last_step 0, lines 666-670)  *)
(* and a fresh model; `previous` keeps what the first process observed.    *)
(***************************************************************************)
\* what the process that has just ended did
Observed ==
    [local_rank |-> local_rank, latest |-> latest, load_error |-> load_error,
     resume_ops |-> resume_ops, resume_outcome |-> resume_outcome,
     samples_seen |-> samples_seen, last_step |-> last_step, printed |-> printed]

\* a process at the top of maybe_resume_training, after an earlier one
NewProcess ==
    /\ mpc = "done"
    /\ previous = <<>>
    /\ previous' = Append(previous, Observed)
    /\ mpc' = "load"
    /\ load_error' = "None"
    /\ load_universal_checkpoint' = FALSE
    /\ samples_seen' = -1
    /\ last_step' = 0
    /\ resume_ops' = <<>>
    /\ printed' = <<>>
    /\ resume_outcome' = "running"
    /\ UNCHANGED effective_batch_size

RECURSIVE DigitsUpTo(_)
\* the non-empty sequences of at most n digits
DigitsUpTo(n) == IF n = 0 THEN {}
                 ELSE LET shorter == DigitsUpTo(n - 1)
                      IN  {<<d>> : d \in {"0", "3"}} \cup
                          {Append(t, d) : t \in shorter, d \in {"0", "3"}}
\* the manifests training writes: the tag "a", an underscore, samples_seen
\* (lines 299-300: checkpoints are tagged <something>_(samples_seen))
WrittenManifests ==
    {[exists |-> TRUE, content |-> <<"a", "_">> \o d] : d \in DigitsUpTo(MaxManifestLen - 2)}

InitSuccessive ==
    /\ InitResume
    /\ latest \in WrittenManifests \cup {NoFile}

\* the run went on, wrote its next checkpoint and is resumed again with the
\* same effective_batch_size
Restart ==
    /\ NewProcess
    /\ latest' \in WrittenManifests
    /\ local_rank' \in {0, 1}
    /\ UNCHANGED notResVars

NextSuccessive ==
    \/ LoadCheckpoint
    \/ Convert
    \/ RetryLoad
    \/ ReadManifest
    \/ Restart

SuccessiveResumesSpec == InitSuccessive /\ [][NextSuccessive]_vars

\* maybe_resume_training run once more on the unchanged directory by a
\* process that has the other LOCAL_RANK
Rerun ==
    /\ NewProcess
    /\ local_rank' = 1 - local_rank
    /\ UNCHANGED latest
    /\ UNCHANGED notResVars

NextRerun ==
    \/ LoadCheckpoint
    \/ Convert
    \/ RetryLoad
    \/ ReadManifest
    \/ Rerun

RerunSpec == InitResume /\ [][NextRerun]_vars

(***************************************************************************)
(* The start of one rank process: main, lines 393-477, and the head of     *)
(* get_perplexity, lines 319-322, with an environment that may lack RANK,  *)
(* LOCAL_RANK or WORLD_SIZE or hold text that is not an integer.  A        *)
(* variable that is not set has the value "absent"; "x" is a value that    *)
(* int() rejects.  The other ranks are taken to arrive at the collectives. *)
(***************************************************************************)
IsSet(v) == v # "absent"
\* int(v) returns
IsInteger(v) == v \notin {"absent", "x"}
\* os.environ[name]: KeyError when the variable is not set
LookupError(v) == IF IsSet(v) THEN "None" ELSE "KeyError"
\* int(os.environ[name]): KeyError, or ValueError when the text is no integer
IntError(v) == IF ~IsSet(v) THEN "KeyError"
               ELSE IF ~IsInteger(v) THEN "ValueError"
               ELSE "None"

InitStartup ==
    /\ env \in [RANK : {"absent", "x", "0", "1"},
                LOCAL_RANK : {"absent", "x", "0", "1"},
                WORLD_SIZE : {"absent", "x", "2"}]
    /\ boot_pc = "main"
    /\ boot_ops = <<>>
    /\ boot_outcome = "running"
    /\ NoSupervisor
    /\ NoRanks
    /\ NoReduction
    /\ NoResume

\* what every step of the start leaves alone
StartupFrame == UNCHANGED env /\ UNCHANGED notBootVars

\* the process ends with an uncaught exception
Abort(error) ==
    /\ boot_pc' = "done"
    /\ boot_outcome' = "raised " \o error
    /\ UNCHANGED boot_ops

\* lines 397-400: the name of the metric log is built from os.environ['RANK'],
\* as text, and the logger is created on that file
OpenMetricLog ==
    /\ boot_pc = "main"
    /\ IF LookupError(env.RANK) # "None"
       THEN Abort(LookupError(env.RANK))
       ELSE /\ boot_ops' = Append(boot_ops, "AsyncStructuredLogger")
            /\ boot_pc' = "script_params"
            /\ UNCHANGED boot_outcome
    /\ StartupFrame

\* lines 401-407: os.environ["LOCAL_RANK"] is compared with "0" as text; the
\* process that passes writes the script parameters; then the logger, the
\* chat template and the tokenizer are set up
LogScriptParams ==
    /\ boot_pc = "script_params"
    /\ IF LookupError(env.LOCAL_RANK) # "None"
       THEN Abort(LookupError(env.LOCAL_RANK))
       ELSE /\ boot_ops' = IF env.LOCAL_RANK = "0"
                           THEN boot_ops \o <<"log_sync", "setup_tokenizer">>
                           ELSE Append(boot_ops, "setup_tokenizer")
            /\ boot_pc' = "set_device"
            /\ UNCHANGED boot_outcome
    /\ StartupFrame

\* lines 411-412: int(os.environ["LOCAL_RANK"])
SetDevice ==
    /\ boot_pc = "set_device"
    /\ IF IntError(env.LOCAL_RANK) # "None"
       THEN Abort(IntError(env.LOCAL_RANK))
       ELSE /\ boot_ops' = Append(boot_ops, "set_device")
            /\ boot_pc' = "init_process_group"
            /\ UNCHANGED boot_outcome
    /\ StartupFrame

\* lines 413-414: torch.distributed.init_process_group("nccl") takes the
\* rank and the world size from RANK and WORLD_SIZE and raises when one of
\* them is missing or no integer
JoinProcessGroup ==
    /\ boot_pc = "init_process_group"
    /\ IF IntError(env.RANK) # "None"
       THEN Abort(IntError(env.RANK))
       ELSE IF IntError(env.WORLD_SIZE) # "None"
       THEN Abort(IntError(env.WORLD_SIZE))
       ELSE /\ boot_ops' = Append(boot_ops, "init_process_group")
            /\ boot_pc' = "collectives"
            /\ UNCHANGED boot_outcome
    /\ StartupFrame

\* lines 415-417
InitCollectives ==
    /\ boot_pc = "collectives"
    /\ boot_ops' = boot_ops \o <<"all_reduce", "barrier">>
    /\ boot_pc' = "setup"
    /\ UNCHANGED boot_outcome
    /\ StartupFrame

\* lines 419-462: dataset and loader, the loader summary written under
\* args.local_rank == 0, and setup_model
SetupModel ==
    /\ boot_pc = "setup"
    /\ boot_ops' = IF env.LOCAL_RANK = "0"
                   THEN boot_ops \o <<"log_sync", "setup_model">>
                   ELSE Append(boot_ops, "setup_model")
    /\ boot_pc' = "get_perplexity"
    /\ UNCHANGED boot_outcome
    /\ StartupFrame

\* line 477 and lines 319-322: model.eval(), int(os.environ["LOCAL_RANK"]),
\* int(os.environ["WORLD_SIZE"]); after them the evaluation starts
EnterEvaluation ==
    /\ boot_pc = "get_perplexity"
    /\ IF IntError(env.LOCAL_RANK) # "None"
       THEN Abort(IntError(env.LOCAL_RANK))
       ELSE IF IntError(env.WORLD_SIZE) # "None"
       THEN Abort(IntError(env.WORLD_SIZE))
       ELSE /\ boot_ops' = Append(boot_ops, "model.eval")
            /\ boot_pc' = "done"
            /\ boot_outcome' = "evaluating"
    /\ StartupFrame

NextStartup ==
    \/ OpenMetricLog
    \/ LogScriptParams
    \/ SetDevice
    \/ JoinProcessGroup
    \/ InitCollectives
    \/ SetupModel
    \/ EnterEvaluation

StartupSpec == InitStartup /\ [][NextStartup]_vars

(***************************************************************************)
(* Properties of run_training                                              *)
(***************************************************************************)
Has(op) == \E i \in DOMAIN ops : ops[i] = op
Count(op) == Cardinality({i \in DOMAIN ops : ops[i] = op})
\* position of the first call of op, 0 when it was never called
Pos(op) == IF Has(op) THEN CHOOSE i \in DOMAIN ops :
                             ops[i] = op /\ \A j \in 1..(i - 1) : ops[j] # op
           ELSE 0
IsPrefix(s, t) == Len(s) <= Len(t) /\ \A i \in DOMAIN s : s[i] = t[i]
IsLifecycleOp(op) == op \in {"poll", "terminate", "wait", "TimeoutExpired", "kill"}
\* what the finally block did to the handle, in order
ShutdownOps == SelectSeq(ops, IsLifecycleOp)
Protocol == <<"poll", "terminate", "wait", "TimeoutExpired", "kill">>
ListenReturned == Has("listen") /\ interrupt = "None"

\* C1: when the child has already exited with code 0 once listen() has
\* returned (process.poll() == 0 in the finally block), neither terminate nor
\* kill is invoked and run_training returns normally.
C1_CleanExitSendsNoSignal ==
    (spc = "done" /\ ListenReturned /\ polled = "0")
        => (~Has("terminate") /\ ~Has("kill") /\ outcome = "returned")

\* C2: the shutdown calls are issued in the order poll, terminate, wait
\* (60 s), kill; kill only follows a wait that timed out after terminate; the
\* exception that ended listen() is re-raised only after terminate and wait
\* (and kill, when the wait timed out) have been issued.
C2_ShutdownOrder ==
    /\ IsPrefix(ShutdownOps, Protocol)
    /\ Has("kill") => /\ 0 < Pos("terminate")
                      /\ Pos("terminate") < Pos("TimeoutExpired")
                      /\ Pos("TimeoutExpired") < Pos("kill")
    /\ outcome \in {"reraised KeyboardInterrupt", "reraised Exception"}
          => /\ ShutdownOps \in {SubSeq(Protocol, 1, 3), Protocol}
             /\ outcome = "reraised " \o interrupt
    /\ (spc = "done" /\ process = "handle" /\ interrupt # "None"
          /\ outcome # "raised KeyboardInterrupt (in wait)")
          => outcome = "reraised " \o interrupt

C2_Witness ==
    /\ spc = "done"
    /\ Has("listen")
    /\ outcome = "reraised KeyboardInterrupt"
    /\ ShutdownOps = Protocol

\* C3: wait and kill are each called at most once per run_training
\* invocation; a wait that times out does so once and is followed by exactly
\* one kill, issued after the timeout.
C3_SingleEscalation ==
    /\ Count("wait") <= 1
    /\ Count("TimeoutExpired") <= 1
    /\ Count("kill") <= 1
    /\ Has("kill") => Has("TimeoutExpired") /\ Pos("TimeoutExpired") < Pos("kill")
    /\ (spc = "done" /\ Has("TimeoutExpired")) => Count("kill") = 1

C3_Witness ==
    /\ spc = "done"
    /\ Count("TimeoutExpired") = 1
    /\ Count("kill") = 1
    /\ returncode = SIGKILL

\* C4: a KeyboardInterrupt raised anywhere in the try block (in the
\* StreamablePopen constructor or in listen()) is raised again to the caller;
\* run_training never returns normally after it.
C4_InterruptNeverSwallowed ==
    (spc = "done" /\ interrupt = "KeyboardInterrupt")
        => outcome \in {"reraised KeyboardInterrupt",
                        "raised KeyboardInterrupt (in wait)"}

\* C5: when StreamablePopen raises, the caller of run_training observes an
\* error, run_training does not return normally, and the launch is not retried.
C5_LaunchFailureSurfaced ==
    (spc = "done" /\ Has("launch") /\ process = "None" /\ interrupt = "Exception")
        => (outcome = "reraised Exception" /\ Count("launch") = 1)

\* C6: while process is None (launch produced no handle), no poll,
\* terminate, wait or kill is issued, up to the end of run_training.
C6_NoHandleNoLifecycleOp ==
    process = "None" => ShutdownOps = <<>>

C6_Witness ==
    /\ spc = "done"
    /\ Has("launch")
    /\ process = "None"
    /\ ShutdownOps = <<>>

\* C7: when listen() returns without raising and the child has exited with a
\* non-zero code, the termination protocol runs and the caller observes a
\* failure, never a normal return.
C7_NonZeroExitIsFailure ==
    (spc = "done" /\ ListenReturned /\ polled \notin {"unset", "None", "0"})
        => (Has("terminate") /\ outcome # "returned")

\* C8: once the 60 s wait has timed out, the caller never observes the
\* timeout: run_training re-raises the exception that ended the try block
\* or, when there is none, returns normally.
C8_TimeoutNotSurfaced ==
    (spc = "done" /\ Has("TimeoutExpired"))
        => /\ outcome # "raised TimeoutExpired"
           /\ outcome = IF interrupt = "None" THEN "returned"
                        ELSE "reraised " \o interrupt

C8_Witness ==
    /\ spc = "done"
    /\ Has("TimeoutExpired")
    /\ Has("kill")
    /\ interrupt = "None"
    /\ outcome = "returned"

\* C26: once terminate has been sent and the child has not exited, kill
\* is sent before run_training finishes, also when a KeyboardInterrupt
\* reaches the supervising thread while it is blocked in
\* process.wait(timeout=60): run_training never ends with the child
\* terminated, still running and not killed.
C26_EscalationNotLost ==
    (spc = "done" /\ Has("terminate") /\ returncode = "running") => Has("kill")

(***************************************************************************)
(* Properties of get_perplexity and main                                   *)
(***************************************************************************)
EqualLoaders == \A r, s \in Ranks : num_batches[r] = num_batches[s]
MinBatches == CHOOSE m \in 0..MaxBatches :
                  /\ \E r \in Ranks : num_batches[r] = m
                  /\ \A r \in Ranks : num_batches[r] >= m
\* the collectives of a rank whose loader yields b batches
ExpectedCalls(b) == <<"all_reduce", "barrier">> \o
                    <<"barrier">> \o [i \in 1..b |-> "reduce"] \o <<"barrier">>
LeftGetPerplexity(r) ==
    rpc[r] \in {"returned", "raised ZeroDivisionError", "closing_barrier", "destroyed"}
StartedFirstBatch(r) == \E i \in DOMAIN calls[r] : calls[r][i] = "reduce"
\* positions of main before torch.distributed.barrier() of line 328
BeforeBarrier == {"main", "all_reduce", "synced", "init_barrier", "loader", "setup"}
ReachedBarrier(r) == rpc[r] \notin BeforeBarrier

\* C9: every rank issues its collectives in the order opening barrier, one
\* sum-reduction per batch, closing barrier, whatever its rank id; when all
\* loaders yield the same number of batches the sequences of any two ranks
\* agree and, under fair scheduling, every rank leaves get_perplexity (and
\* ends destroyed or with the division error); when some rank has fewer
\* batches than another, the ranks with more batches never leave
\* get_perplexity: they stay blocked in a reduction, and no closing barrier
\* ever completes.
C9_LockstepCollectives ==
    /\ [](/\ \A r \in Ranks : IsPrefix(calls[r], ExpectedCalls(num_batches[r]))
          /\ EqualLoaders =>
               \A r, s \in Ranks : IsPrefix(calls[r], calls[s]) \/ IsPrefix(calls[s], calls[r])
          /\ ~EqualLoaders =>
               \A r \in Ranks : /\ num_batches[r] > MinBatches => ~LeftGetPerplexity(r)
                                /\ rpc[r] # "destroyed")
    /\ <>[](IF EqualLoaders
            THEN \A r \in Ranks : rpc[r] \in {"destroyed", "raised ZeroDivisionError"}
            ELSE \A r \in Ranks :
                   IF num_batches[r] > MinBatches
                   THEN rpc[r] = "reduce"
                   ELSE rpc[r] \in {"closing_barrier", "raised ZeroDivisionError"})

C9_Witness ==
    /\ world_size >= 2
    /\ nproc_per_node >= 2
    /\ \A r \in Ranks : /\ num_batches[r] >= 1
                        /\ rpc[r] = "destroyed"
                        /\ calls[r] = ExpectedCalls(num_batches[0])

\* C10: no rank has started its first batch (forward pass, reduction)
\* while some rank has not yet reached the barrier of line 328.
C10_BarrierBeforeFirstBatch ==
    \A r \in Ranks :
        (StartedFirstBatch(r) \/ rpc[r] \notin BeforeBarrier \cup {"barrier"})
            => \A s \in Ranks : ReachedBarrier(s)

C10_Witness ==
    \E r, s \in Ranks : /\ rpc[r] = "reduce"
                        /\ batch_idx[r] = 0
                        /\ rpc[s] = "loop"
                        /\ ~StartedFirstBatch(s)

(***************************************************************************)
(* Properties of the sum-reduction                                         *)
(***************************************************************************)
RECURSIVE ArithmeticSum(_, _)
\* f[0] + ... + f[n] over the integers
ArithmeticSum(f, n) == IF n < 0 THEN 0 ELSE f[n] + ArithmeticSum(f, n - 1)
ReductionDone == \E p \in partial : p.ranks = ReduceRanks

\* C11: whatever the order and grouping in which the ranks' tensors are
\* combined, every partial sum is the arithmetic sum of the local values
\* of the ranks it covers; so the three reduced values are the arithmetic
\* sums over all ranks of log_perplexity, num_loss_counted_tokens and
\* num_samples (4 ranks, integer inputs up to max_batch_len tokens).
C11_ReduceIsArithmeticSum ==
    \A p \in partial :
        LET Of(field) == ArithmeticSum([r \in ReduceRanks |->
                             IF r \in p.ranks THEN contrib[r][field] ELSE 0],
                             ReduceWorld - 1)
        IN  /\ p.sum.log_perplexity = Of("log_perplexity")
            /\ p.sum.num_loss_counted_tokens = Of("num_loss_counted_tokens")
            /\ p.sum.num_samples = Of("num_samples")

C11_Witness ==
    /\ ReductionDone
    /\ partial = {[ranks |-> ReduceRanks,
                   sum |-> [log_perplexity |-> LossOf(2 * max_batch_len + 1),
                            num_loss_counted_tokens |-> 2 * max_batch_len + 1,
                            num_samples |-> 3 * samples_per_gpu + 1]]}
    /\ \E r \in ReduceRanks : contrib[r].num_samples = 1

(***************************************************************************)
(* Properties of the running totals and the metric records                 *)
(***************************************************************************)
Returned(r) == rpc[r] \in {"returned", "closing_barrier", "destroyed"}
IsBatchRecord(rec) == "log_perplexity" \in DOMAIN rec
IsFinalRecord(rec) == "average_log_perp" \in DOMAIN rec
\* the per-batch records rank r has written, in order
BatchRecords(r) == SelectSeq(records[r], IsBatchRecord)
SameFraction(a, b) == a.num * b.den = b.num * a.den

\* C12: two ranks that have completed the same number of batches hold the
\* same running totals (total_log_perplexity, total_num_tokens,
\* total_samples); the k-th per-batch records of two ranks that write
\* records agree; and the value get_perplexity returns is the same on every
\* rank that returns.
C12_TotalsAgree ==
    \A r, s \in Ranks :
        /\ batch_idx[r] = batch_idx[s] => totals[r] = totals[s]
        /\ \A k \in DOMAIN BatchRecords(r) \cap DOMAIN BatchRecords(s) :
               BatchRecords(r)[k] = BatchRecords(s)[k]
        /\ (Returned(r) /\ Returned(s))
              => SameFraction(AverageLogPerp(totals[r]), AverageLogPerp(totals[s]))

C12_Witness ==
    /\ world_size = 2
    /\ nproc_per_node = 1
    /\ \A r \in Ranks : /\ Returned(r)
                        /\ batch_idx[r] = 2
                        /\ totals[r].total_num_tokens = 3
                        /\ Len(BatchRecords(r)) = 2

\* C13: in every topology (nnodes x nproc_per_node), the script
\* parameters, the data-loader summary, the per-batch records and the final
\* record are written by global rank 0 only; a rank other than 0 never
\* writes a record.
C13_OnlyGlobalRankZeroReports ==
    \A r \in Ranks : records[r] # <<>> => r = 0

HasFinalRecord(r) == \E i \in DOMAIN records[r] : IsFinalRecord(records[r][i])

\* C14: a rank that is past the loop with total_num_tokens = 0 has ended
\* get_perplexity with ZeroDivisionError (line 375); it has written no
\* record that holds average_log_perp or avg_perplexity and has returned
\* no value.
C14_ZeroTokensIsFatal ==
    \A r \in Ranks :
        (LeftGetPerplexity(r) /\ totals[r].total_num_tokens = 0)
            => /\ rpc[r] = "raised ZeroDivisionError"
               /\ ~HasFinalRecord(r)
               /\ ~Returned(r)

C14_Witness ==
    \E r \in Ranks : /\ LocalRank(r) = 0
                      /\ num_batches[r] = 2
                      /\ Len(BatchRecords(r)) = 2
                      /\ totals[r].total_num_tokens = 0
                      /\ rpc[r] = "raised ZeroDivisionError"

IsPassRecord(rec) == IsBatchRecord(rec) \/ IsFinalRecord(rec)
\* the records rank r has written inside get_perplexity, in order
PassRecords(r) == SelectSeq(records[r], IsPassRecord)
RECURSIVE SumOfField(_, _, _)
\* recs[1][field] + ... + recs[k][field]
SumOfField(recs, field, k) ==
    IF k = 0 THEN 0 ELSE recs[k][field] + SumOfField(recs, field, k - 1)

\* C15: a process that writes records has, after k batches, written k
\* per-batch records and no final record; the totals of the k-th record are
\* the sums of the reduced values of the records 1..k; once get_perplexity
\* has returned after B batches its records of the pass are the B per-batch
\* records followed by exactly one final record, whose totals are those of
\* the B-th per-batch record.
C15_RecordsOfAPass ==
    \A r \in Ranks :
        LocalRank(r) = 0 =>
            LET recs == BatchRecords(r) IN
            /\ Len(recs) = batch_idx[r]
            /\ \A k \in DOMAIN recs :
                  /\ recs[k].total_log_perplexity = SumOfField(recs, "log_perplexity", k)
                  /\ recs[k].total_num_tokens = SumOfField(recs, "num_loss_counted_tokens", k)
                  /\ recs[k].total_samples = SumOfField(recs, "num_samples", k)
            /\ IF Returned(r)
               THEN /\ Len(recs) = num_batches[r]
                    /\ Len(recs) >= 1
                    /\ Len(PassRecords(r)) = Len(recs) + 1
                    /\ SubSeq(PassRecords(r), 1, Len(recs)) = recs
                    /\ LET final == PassRecords(r)[Len(recs) + 1]
                           last == recs[Len(recs)]
                       IN  /\ IsFinalRecord(final)
                           /\ final.total_log_perplexity = last.total_log_perplexity
                           /\ final.total_num_tokens = last.total_num_tokens
                           /\ final.total_samples = last.total_samples
               ELSE PassRecords(r) = recs

C15_Witness ==
    /\ world_size = 2
    /\ rpc[0] = "destroyed"
    /\ Len(PassRecords(0)) = 3
    /\ PassRecords(0)[1].num_loss_counted_tokens = 2
    /\ PassRecords(0)[2].num_loss_counted_tokens = 1
    /\ PassRecords(0)[3].total_num_tokens = 3

\* C25: when every loader yields the same number of batches, either every
\* rank that leaves the loop raises ZeroDivisionError or none does: there
\* is no state in which one rank has raised while another has returned from
\* get_perplexity, so no rank waits in the barrier of line 480 for a rank
\* that aborted.
C25_ZeroTokenOutcomeAgreed ==
    EqualLoaders =>
        \A r, s \in Ranks :
            rpc[r] = "raised ZeroDivisionError" => ~Returned(s)

C25_Witness ==
    /\ world_size = 2
    /\ nproc_per_node = 2
    /\ \A r \in Ranks : /\ num_batches[r] = 2
                        /\ batch_idx[r] = 2
                        /\ rpc[r] = "raised ZeroDivisionError"

(***************************************************************************)
(* Properties of maybe_resume_training                                     *)
(***************************************************************************)
Fallback == <<"load_checkpoint", "prepare_universal_checkpoint_from_latest",
              "load_checkpoint">>
\* the try/except of lines 271-293 has been left
PastLoad == mpc \in {"manifest", "done"}
\* the manifest was opened and its content handed to re.match
Parsed == mpc = "done" /\ latest.exists
              /\ resume_outcome \in {"returned", "raised AttributeError"}
\* t is <tag>_<n>: a non-empty tag, an underscore, one or more digits
WellFormed(t) ==
    \E i \in 2..(Len(t) - 1) : /\ t[i] = "_"
                               /\ \A j \in (i + 1)..Len(t) : IsDigit(t[j])
\* the <n> of a well-formed manifest: what follows its last underscore
Suffix(t) ==
    SubSeq(t, Max({i \in 1..Len(t) : t[i] = "_"}) + 1, Len(t))

\* C16: a primary load that fails with the DP-world-size message is
\* followed by exactly one prepare_universal_checkpoint_from_latest and
\* then exactly one more load_checkpoint; a primary load that fails in any
\* other way is followed by no conversion and no retry, and its exception
\* reaches the caller.
C16_FallbackOnlyOnMismatch ==
    /\ IsPrefix(resume_ops, Fallback)
    /\ (PastLoad /\ IsWorldSizeMismatch(load_error)) => resume_ops = Fallback
    /\ (PastLoad /\ ~IsWorldSizeMismatch(load_error))
          => resume_ops = <<"load_checkpoint">>
    /\ (load_error # "None" /\ ~IsWorldSizeMismatch(load_error))
          => /\ mpc = "done"
             /\ resume_outcome = "raised " \o load_error

C16_Witness ==
    /\ mpc = "done"
    /\ IsWorldSizeMismatch(load_error)
    /\ resume_ops = Fallback
    /\ resume_outcome = "returned"

\* C17: model._config.load_universal_checkpoint is true only while the
\* retry load is in progress; once maybe_resume_training is no longer
\* executing, however the retry load ended, the flag is false.
C17_FlagOnlyDuringRetry ==
    load_universal_checkpoint => mpc = "retry"

\* C18: without a `latest` file maybe_resume_training returns normally,
\* args.last_step keeps its initial value 0, and neither a conversion nor a
\* retry load is made.
C18_NoManifestIsNoOp ==
    ~latest.exists =>
        /\ IsPrefix(resume_ops, <<"load_checkpoint">>)
        /\ last_step = 0
        /\ samples_seen = -1
        /\ ~load_universal_checkpoint
        /\ mpc = "done" => resume_outcome = "returned"

C18_Witness ==
    /\ ~latest.exists
    /\ mpc = "done"
    /\ resume_ops = <<"load_checkpoint">>
    /\ resume_outcome = "returned"
    /\ last_step = 0

\* C19: for every manifest <tag>_<n>, with <tag> any non-empty text and <n>
\* a non-negative decimal integer, the parse yields samples_seen = n.
C19_WellFormedManifestParses ==
    (Parsed /\ WellFormed(latest.content))
        => /\ resume_outcome = "returned"
           /\ samples_seen = ParseInt(Suffix(latest.content))

\* C20: for every manifest that is not <tag>_<n> (no underscore, a suffix
\* after the last underscore that is not all digits, or empty), the parse
\* ends in a fatal error and args.last_step is never set.
C20_MalformedManifestIsFatal ==
    (Parsed /\ ~WellFormed(latest.content))
        => /\ resume_outcome = "raised AttributeError"
           /\ samples_seen = -1
           /\ last_step = 0

\* C21: after a load that succeeded and a manifest that parsed,
\* args.last_step is the floor of samples_seen / effective_batch_size: the
\* one integer q with q * effective_batch_size <= samples_seen <
\* (q + 1) * effective_batch_size, whatever the tag, the LOCAL_RANK or the
\* path through the fallback.
C21_LastStepIsFloorDivision ==
    (mpc = "done" /\ resume_outcome = "returned" /\ latest.exists)
        => /\ samples_seen >= 0
           /\ last_step * effective_batch_size <= samples_seen
           /\ samples_seen < (last_step + 1) * effective_batch_size

C21_Witness ==
    /\ mpc = "done"
    /\ resume_outcome = "returned"
    /\ WellFormed(latest.content)
    /\ samples_seen = 33
    /\ effective_batch_size = 2
    /\ last_step = 16

\* C22: when the same run (same effective_batch_size) is resumed twice and
\* both manifests parse, with samples_seen s1 of the first resume and
\* s2 >= s1 of the second, the last_step of the second resume is not
\* smaller than that of the first.
C22_LastStepMonotone ==
    \A i \in DOMAIN previous :
        (/\ previous[i].resume_outcome = "returned"
         /\ previous[i].latest.exists
         /\ mpc = "done" /\ resume_outcome = "returned" /\ latest.exists
         /\ previous[i].samples_seen <= samples_seen)
            => previous[i].last_step <= last_step

C22_Witness ==
    /\ Len(previous) = 1
    /\ previous[1].samples_seen = 3
    /\ previous[1].last_step = 1
    /\ mpc = "done"
    /\ resume_outcome = "returned"
    /\ samples_seen = 30
    /\ last_step = 15

RetryRaised(o) == o = "raised in retry load"

\* C23: two executions of maybe_resume_training on the same directory and
\* manifest whose loads end the same way (same primary load result, same
\* retry result) make the same load, conversion and retry calls, end with
\* the same outcome and leave the same args.last_step, whatever their
\* LOCAL_RANK; only what is printed differs.
C23_LocalRankIsCosmetic ==
    \A i \in DOMAIN previous :
        (/\ mpc = "done"
         /\ previous[i].latest = latest
         /\ previous[i].load_error = load_error
         /\ RetryRaised(previous[i].resume_outcome) <=> RetryRaised(resume_outcome))
            => /\ previous[i].resume_ops = resume_ops
               /\ previous[i].resume_outcome = resume_outcome
               /\ previous[i].last_step = last_step
               /\ previous[i].samples_seen = samples_seen

C23_Witness ==
    /\ Len(previous) = 1
    /\ previous[1].local_rank = 0
    /\ previous[1].printed = <<16>>
    /\ previous[1].last_step = 16
    /\ previous[1].resume_ops = Fallback
    /\ local_rank = 1
    /\ mpc = "done"
    /\ resume_ops = Fallback
    /\ resume_outcome = "returned"
    /\ printed = <<>>
    /\ last_step = 16

(***************************************************************************)
(* Properties of the start of a rank process                               *)
(***************************************************************************)
EnvIsValid ==
    IsInteger(env.RANK) /\ IsInteger(env.LOCAL_RANK) /\ IsInteger(env.WORLD_SIZE)

\* C24: a process whose RANK, LOCAL_RANK or WORLD_SIZE is absent or not an
\* integer never creates its metric log, writes a record, joins the process
\* group, issues a collective or sets up the model: it has done nothing
\* when it aborts.
C24_FailFastOnEnvironment ==
    ~EnvIsValid => boot_ops = <<>>

====
